---- MODULE Spec2Model ----
(***************************************************************************)
(* A model of src/midi/ports.go: the port lifecycle (FakePort, SystemPort) *)
(* and the connectors (Pipe, Router, Funnel) that forward events between   *)
(* the buffered event channels of devices.                                 *)
(*                                                                         *)
(* A Go channel is a record [st, buf, gen]: st is "nil" (never made),      *)
(* "open" or "closed"; buf is the buffered content; gen tells one channel  *)
(* object from another (every make() yields a fresh one).  A send on a     *)
(* closed channel and a close of a nil or closed channel panic, which ends *)
(* the whole process: no action is enabled once panic is set.              *)
(*                                                                         *)
(* Devices are numbered.  Pipe p connects device p-1 to device p; a Router *)
(* has From = device 0 and To[k] = device k; a Funnel has To = device 0    *)
(* and From[i] = device i.  An event is a pair <<d, n>>: the n-th event    *)
(* that was placed on the output channel of device d.                      *)
(***************************************************************************)
EXTENDS Integers, Sequences, FiniteSets, TLC

VARIABLES
    panic,    \* "none", or the runtime panic that ended the process
    dev,      \* device -> [in, out]: its two ports (FakePort records)
    stop,     \* connector -> number of tokens in its stop channel (capacity 1)
    stopPc,   \* [pc, i]: position of the goroutine that calls Stop()
    sent,     \* history: device -> events placed on its output channel
    dlv,      \* history: device -> events a connector placed on its input channel
              \* (Funnel: source -> its events placed on To's input channel)
    pipe,     \* pipe -> [pc, e]: position of Pipe.Connect and the event it holds
    router,   \* [pc]: position of Router.Connect
    bcast,    \* event -> index of the next destination of its broadcast goroutine
    funnel,   \* [i, task]: Funnel.Connect's loop index and its forwarding goroutines
    fake,     \* a FakePort
    sys,      \* a SystemPort (embedded in a SystemInPort or a SystemOutPort)
    last,     \* the last port operation: [op, port, wasOpen, errNum, transport, ret]
    run,      \* the Run loop of the SystemPort: its position and what it holds
    runs,     \* history: device -> number of times its Run() was started
    ctor      \* a constructor (NewPipe, NewRouter) in progress: its position and result

vars == <<panic, dev, stop, stopPc, sent, dlv, pipe, router, bcast, funnel, fake, sys, last,
          run, runs, ctor>>

connVars == <<pipe, router, bcast, funnel>>
portVars == <<fake, sys, last>>
auxVars == <<run, runs, ctor>>

\* ------------------------------------------------------------------ bounds

BufferSize == 1     \* capacity of a port's event channel
PipeEvents == 4     \* events the source of the Pipe emits
RouterEvents == 2   \* events the source of the Router emits
FunnelEvents == 3   \* events each source of the Funnel emits
NumTo == 2          \* destinations of the Router
NumFrom == 2        \* sources of the Funnel
MaxGen == 3         \* channels a FakePort makes over its life
ChainLen == 3       \* devices of the Chain
ChainEvents == 2    \* events pushed at the head of the Chain
RunFrames == 2      \* polls of a Run loop that find data

Nil == "nil"        \* a nil error

NilEvent == <<>>    \* the zero Event: what a receive from a closed channel yields

\* ---------------------------------------------------------------- channels

NilChan == [st |-> "nil", buf |-> <<>>, gen |-> 0]

MakeChan(g) == [st |-> "open", buf |-> <<>>, gen |-> g]

\* close(c): the panic it raises, if any
ClosePanic(c) ==
    IF c.st = "nil" THEN "close of nil channel"
    ELSE IF c.st = "closed" THEN "close of closed channel"
    ELSE "none"

CloseChan(c) == [c EXCEPT !.st = "closed"]

\* c <- e can proceed (a send on a closed channel proceeds, to a panic)
CanSend(c) == c.st = "closed" \/ (c.st = "open" /\ Len(c.buf) < BufferSize)

SendPanic(c) == IF c.st = "closed" THEN "send on closed channel" ELSE "none"

SendChan(c, e) == IF c.st = "open" THEN [c EXCEPT !.buf = Append(@, e)] ELSE c

\* <-c can proceed: a buffered value, or the zero value of a closed channel
CanRecv(c) == c.buf # <<>> \/ c.st = "closed"

RecvOk(c) == c.buf # <<>>

RecvVal(c) == IF c.buf # <<>> THEN Head(c.buf) ELSE NilEvent

RecvChan(c) == IF c.buf # <<>> THEN [c EXCEPT !.buf = Tail(@)] ELSE c

\* ---------------------------------------------------------------- FakePort

NewFakePort == [isOpen |-> FALSE, events |-> NilChan]

FakePort_Open(t, g) == [isOpen |-> TRUE, events |-> MakeChan(g)]

\* the port after Close, and the panic close(t.events) raises (the port is
\* left as it was when it panics)
FakePort_Close(t) ==
    IF ClosePanic(t.events) # "none"
    THEN [port |-> t, panic |-> ClosePanic(t.events)]
    ELSE [port |-> [isOpen |-> FALSE, events |-> CloseChan(t.events)], panic |-> "none"]

\* ------------------------------------------------------------------ Device

\* Open cascades to the input port, then the output port
Device_Open(d) == [in |-> FakePort_Open(d.in, d.in.events.gen + 1),
                   out |-> FakePort_Open(d.out, d.out.events.gen + 1)]

\* Close cascades to the input port, then the output port
Device_Close(d) ==
    LET ci == FakePort_Close(d.in)
        co == FakePort_Close(d.out)
    IN  IF ci.panic # "none" THEN [dev |-> d, panic |-> ci.panic]
        ELSE [dev |-> [in |-> ci.port, out |-> co.port], panic |-> co.panic]

NewDevice == [in |-> NewFakePort, out |-> NewFakePort]

OutPort(d) == dev[d].out.events

InPort(d) == dev[d].in.events

NoEvents(D) == [d \in D |-> <<>>]

Running == panic = "none"

\* Stop() has not been called
Idle == [pc |-> "idle", i |-> 0]

NoStop == stopPc.pc = "idle"

IsPrefix(s, t) == Len(s) <= Len(t) /\ SubSeq(t, 1, Len(s)) = s

\* how many times e occurs in s
Count(s, e) == Cardinality({i \in 1..Len(s) : s[i] = e})

\* the owner of source device d places its next event on d's output channel
Produce(d, max) ==
    /\ Running
    /\ Len(sent[d]) < max
    /\ OutPort(d).st = "open"
    /\ Len(OutPort(d).buf) < BufferSize
    /\ LET e == <<d, Len(sent[d]) + 1>>
       IN  /\ dev' = [dev EXCEPT ![d].out.events = SendChan(@, e)]
           /\ sent' = [sent EXCEPT ![d] = Append(@, e)]
    /\ UNCHANGED <<panic, stop, stopPc, dlv, connVars, portVars, auxVars>>

\* the owner of destination device d takes an event off d's input channel
Drain(d) ==
    /\ Running
    /\ InPort(d).buf # <<>>
    /\ dev' = [dev EXCEPT ![d].in.events = RecvChan(@)]
    /\ UNCHANGED <<panic, stop, stopPc, sent, dlv, connVars, portVars, auxVars>>

\* ------------------------------------------------------------------- Pipe

PFrom(p) == p - 1

PTo(p) == p

\* NewPipe: the pipe with both devices opened and an empty stop channel
NewPipe == [d \in {0, 1} |-> Device_Open(NewDevice)]

\* Pipe.Connect up to its loop: the devices' Run loops are started
PipeConnect(p) ==
    /\ Running
    /\ pipe[p].pc = "start"
    /\ pipe' = [pipe EXCEPT ![p].pc = "select"]
    /\ runs' = [runs EXCEPT ![PFrom(p)] = @ + 1, ![PTo(p)] = @ + 1]
    /\ UNCHANGED <<panic, dev, stop, stopPc, sent, dlv, router, bcast, funnel, portVars, run, ctor>>

\* a forwarder that reads ahead: it takes the next source event while it still
\* holds one it has not forwarded
PipeRecv_Eager(p) ==
    /\ Running
    /\ pipe[p].pc \in {"select", "send"}
    /\ CanRecv(OutPort(PFrom(p)))
    /\ pipe' = [pipe EXCEPT ![p] =
                    IF RecvOk(OutPort(PFrom(p)))
                    THEN [pc |-> "send", e |-> RecvVal(OutPort(PFrom(p)))]
                    ELSE [pc |-> "done", e |-> NilEvent]]
    /\ dev' = [dev EXCEPT ![PFrom(p)].out.events = RecvChan(@)]
    /\ UNCHANGED <<panic, stop, stopPc, sent, dlv, router, bcast, funnel, portVars, auxVars>>

\* case e, ok := <-input.Events(): return when !ok
PipeRecv(p) ==
    /\ Running
    /\ pipe[p].pc = "select"
    /\ CanRecv(OutPort(PFrom(p)))
    /\ pipe' = [pipe EXCEPT ![p] =
                    IF RecvOk(OutPort(PFrom(p)))
                    THEN [pc |-> "send", e |-> RecvVal(OutPort(PFrom(p)))]
                    ELSE [pc |-> "done", e |-> NilEvent]]
    /\ dev' = [dev EXCEPT ![PFrom(p)].out.events = RecvChan(@)]
    /\ UNCHANGED <<panic, stop, stopPc, sent, dlv, router, bcast, funnel, portVars, auxVars>>

\* a forwarder that sends without blocking (select with a default case): the
\* event is dropped when the destination is full
PipeSend_Drop(p) ==
    /\ Running
    /\ pipe[p].pc = "send"
    /\ panic' = SendPanic(InPort(PTo(p)))
    /\ dev' = [dev EXCEPT ![PTo(p)].in.events =
                  IF Len(@.buf) < BufferSize THEN SendChan(@, pipe[p].e) ELSE @]
    /\ dlv' = IF InPort(PTo(p)).st = "open" /\ Len(InPort(PTo(p)).buf) < BufferSize
              THEN [dlv EXCEPT ![PTo(p)] = Append(@, pipe[p].e)]
              ELSE dlv
    /\ pipe' = IF InPort(PTo(p)).st = "open"
               THEN [pipe EXCEPT ![p] = [pc |-> "select", e |-> NilEvent]]
               ELSE pipe
    /\ UNCHANGED <<stop, stopPc, sent, router, bcast, funnel, portVars, auxVars>>

\* output.Events() <- e
PipeSend(p) ==
    /\ Running
    /\ pipe[p].pc = "send"
    /\ CanSend(InPort(PTo(p)))
    /\ panic' = SendPanic(InPort(PTo(p)))
    /\ dev' = [dev EXCEPT ![PTo(p)].in.events = SendChan(@, pipe[p].e)]
    /\ dlv' = IF InPort(PTo(p)).st = "open"
              THEN [dlv EXCEPT ![PTo(p)] = Append(@, pipe[p].e)]
              ELSE dlv
    /\ pipe' = IF InPort(PTo(p)).st = "open"
               THEN [pipe EXCEPT ![p] = [pc |-> "select", e |-> NilEvent]]
               ELSE pipe
    /\ UNCHANGED <<stop, stopPc, sent, router, bcast, funnel, portVars, auxVars>>

\* case <-p.stop: return
PipeStopped(p) ==
    /\ Running
    /\ pipe[p].pc = "select"
    /\ stop[p] > 0
    /\ stop' = [stop EXCEPT ![p] = 0]
    /\ pipe' = [pipe EXCEPT ![p].pc = "done"]
    /\ UNCHANGED <<panic, dev, stopPc, sent, dlv, router, bcast, funnel, portVars, auxVars>>

\* Pipe.Stop: p.stop <- true
PipeStopSignal(p) ==
    /\ Running
    /\ stopPc.pc = "idle"
    /\ stop[p] = 0
    /\ stop' = [stop EXCEPT ![p] = 1]
    /\ stopPc' = [pc |-> "closeFrom", i |-> 0]
    /\ UNCHANGED <<panic, dev, sent, dlv, connVars, portVars, auxVars>>

\* Pipe.Stop: err = p.From.Close()
PipeStopCloseFrom(p) ==
    /\ Running
    /\ stopPc.pc = "closeFrom"
    /\ dev' = [dev EXCEPT ![PFrom(p)] = Device_Close(@).dev]
    /\ panic' = Device_Close(dev[PFrom(p)]).panic
    /\ stopPc' = [pc |-> "closeTo", i |-> 1]
    /\ UNCHANGED <<stop, sent, dlv, connVars, portVars, auxVars>>

\* Pipe.Stop: err = p.To.Close()
PipeStopCloseTo(p) ==
    /\ Running
    /\ stopPc.pc = "closeTo"
    /\ dev' = [dev EXCEPT ![PTo(p)] = Device_Close(@).dev]
    /\ panic' = Device_Close(dev[PTo(p)]).panic
    /\ stopPc' = [pc |-> "done", i |-> 0]
    /\ UNCHANGED <<stop, sent, dlv, connVars, portVars, auxVars>>

NoPort == [isOpen |-> FALSE]

NoRun == [pc |-> "none"]

NoCtor == [pc |-> "none"]

NoLast == [op |-> "none", port |-> "none", wasOpen |-> FALSE, errNum |-> 0,
           transport |-> FALSE, ret |-> "nil"]

InitPipe ==
    /\ panic = "none"
    /\ dev = NewPipe
    /\ stop = [p \in {1} |-> 0]
    /\ stopPc = Idle
    /\ sent = NoEvents({0, 1})
    /\ dlv = NoEvents({0, 1})
    /\ pipe = [p \in {1} |-> [pc |-> "start", e |-> NilEvent]]
    /\ router = [pc |-> "none"]
    /\ bcast = <<>>
    /\ funnel = [i |-> 0, task |-> <<>>]
    /\ fake = NoPort
    /\ sys = NoPort
    /\ last = NoLast
    /\ run = NoRun
    /\ runs = [d \in DOMAIN dev |-> 0]
    /\ ctor = NoCtor

NextPipe ==
    \/ Produce(0, PipeEvents)
    \/ Drain(1)
    \/ PipeConnect(1)
    \/ PipeRecv(1)
    \/ PipeSend(1)
    \/ PipeStopped(1)
    \/ PipeStopSignal(1)
    \/ PipeStopCloseFrom(1)
    \/ PipeStopCloseTo(1)

SpecPipe == InitPipe /\ [][NextPipe]_vars

\* the Go scheduler runs every runnable goroutine, and the destination is drained
FairPipe ==
    /\ SpecPipe
    /\ WF_vars(PipeConnect(1))
    /\ WF_vars(PipeRecv(1))
    /\ WF_vars(PipeSend(1))
    /\ WF_vars(Drain(1))

\* ----------------------------------------------------------------- Router

Tos == 1..NumTo

Events(d) == {<<d, n>> : n \in 1..RouterEvents}

\* NewRouter: From and every To opened, in this order, and an empty stop channel
NewRouter == [d \in {0} \cup Tos |-> Device_Open(NewDevice)]

\* Router.Connect up to its loop: the devices' Run loops are started
RouterConnect ==
    /\ Running
    /\ router.pc = "start"
    /\ router' = [router EXCEPT !.pc = "select"]
    /\ runs' = [d \in DOMAIN runs |-> runs[d] + 1]
    /\ UNCHANGED <<panic, dev, stop, stopPc, sent, dlv, pipe, bcast, funnel, portVars, run, ctor>>

\* case e, ok := <-r.From.OutPort().Events(): return when !ok, else start the
\* goroutine that broadcasts e
RouterRecv ==
    /\ Running
    /\ router.pc = "select"
    /\ CanRecv(OutPort(0))
    /\ IF RecvOk(OutPort(0))
       THEN /\ bcast' = [bcast EXCEPT ![RecvVal(OutPort(0))] = 1]
            /\ UNCHANGED router
       ELSE /\ router' = [router EXCEPT !.pc = "done"]
            /\ UNCHANGED bcast
    /\ dev' = [dev EXCEPT ![0].out.events = RecvChan(@)]
    /\ UNCHANGED <<panic, stop, stopPc, sent, dlv, pipe, funnel, portVars, auxVars>>

\* a broadcast that leaves out a destination whose channel is full
BroadcastSend_Skip(e) ==
    /\ Running
    /\ bcast[e] \in Tos
    /\ panic' = SendPanic(InPort(bcast[e]))
    /\ dev' = [dev EXCEPT ![bcast[e]].in.events =
                  IF Len(@.buf) < BufferSize THEN SendChan(@, e) ELSE @]
    /\ dlv' = IF InPort(bcast[e]).st = "open" /\ Len(InPort(bcast[e]).buf) < BufferSize
              THEN [dlv EXCEPT ![bcast[e]] = Append(@, e)]
              ELSE dlv
    /\ bcast' = IF InPort(bcast[e]).st = "open" THEN [bcast EXCEPT ![e] = @ + 1] ELSE bcast
    /\ UNCHANGED <<stop, stopPc, sent, pipe, router, funnel, portVars, auxVars>>

\* a broadcast that writes the destinations in no fixed sequence: it may write
\* the destination after the next one first
BroadcastSend_Unordered(e) ==
    /\ Running
    /\ bcast[e] \in Tos
    /\ \E k \in {bcast[e], bcast[e] + 1} \cap Tos :
          /\ CanSend(InPort(k))
          /\ panic' = SendPanic(InPort(k))
          /\ dev' = [dev EXCEPT ![k].in.events = SendChan(@, e)]
          /\ dlv' = IF InPort(k).st = "open"
                    THEN [dlv EXCEPT ![k] = Append(@, e)]
                    ELSE dlv
          /\ bcast' = IF InPort(k).st = "open" THEN [bcast EXCEPT ![e] = k + 1] ELSE bcast
    /\ UNCHANGED <<stop, stopPc, sent, pipe, router, funnel, portVars, auxVars>>

\* the goroutine of event e, in for _, to := range r.To: to.InPort().Events() <- e
BroadcastSend(e) ==
    /\ Running
    /\ bcast[e] \in Tos
    /\ CanSend(InPort(bcast[e]))
    /\ panic' = SendPanic(InPort(bcast[e]))
    /\ dev' = [dev EXCEPT ![bcast[e]].in.events = SendChan(@, e)]
    /\ dlv' = IF InPort(bcast[e]).st = "open"
              THEN [dlv EXCEPT ![bcast[e]] = Append(@, e)]
              ELSE dlv
    /\ bcast' = IF InPort(bcast[e]).st = "open" THEN [bcast EXCEPT ![e] = @ + 1] ELSE bcast
    /\ UNCHANGED <<stop, stopPc, sent, pipe, router, funnel, portVars, auxVars>>

\* case <-r.stop: return
RouterStopped ==
    /\ Running
    /\ router.pc = "select"
    /\ stop[1] > 0
    /\ stop' = [stop EXCEPT ![1] = 0]
    /\ router' = [router EXCEPT !.pc = "done"]
    /\ UNCHANGED <<panic, dev, stopPc, sent, dlv, pipe, bcast, funnel, portVars, auxVars>>

\* Router.Stop: r.stop <- true
RouterStopSignal ==
    /\ Running
    /\ stopPc.pc = "idle"
    /\ stop[1] = 0
    /\ stop' = [stop EXCEPT ![1] = 1]
    /\ stopPc' = [pc |-> "closeFrom", i |-> 0]
    /\ UNCHANGED <<panic, dev, sent, dlv, connVars, portVars, auxVars>>

\* Router.Stop: err = r.From.Close()
RouterStopCloseFrom ==
    /\ Running
    /\ stopPc.pc = "closeFrom"
    /\ dev' = [dev EXCEPT ![0] = Device_Close(@).dev]
    /\ panic' = Device_Close(dev[0]).panic
    /\ stopPc' = [pc |-> "closeTo", i |-> 1]
    /\ UNCHANGED <<stop, sent, dlv, connVars, portVars, auxVars>>

\* Router.Stop: for _, to := range r.To: err = to.Close()
RouterStopCloseTo ==
    /\ Running
    /\ stopPc.pc = "closeTo"
    /\ dev' = [dev EXCEPT ![stopPc.i] = Device_Close(@).dev]
    /\ panic' = Device_Close(dev[stopPc.i]).panic
    /\ stopPc' = IF stopPc.i < NumTo
                 THEN [pc |-> "closeTo", i |-> stopPc.i + 1]
                 ELSE [pc |-> "done", i |-> 0]
    /\ UNCHANGED <<stop, sent, dlv, connVars, portVars, auxVars>>

InitRouter ==
    /\ panic = "none"
    /\ dev = NewRouter
    /\ stop = [c \in {1} |-> 0]
    /\ stopPc = Idle
    /\ sent = NoEvents({0} \cup Tos)
    /\ dlv = NoEvents({0} \cup Tos)
    /\ pipe = <<>>
    /\ router = [pc |-> "start"]
    /\ bcast = [e \in Events(0) |-> 0]
    /\ funnel = [i |-> 0, task |-> <<>>]
    /\ fake = NoPort
    /\ sys = NoPort
    /\ last = NoLast
    /\ run = NoRun
    /\ runs = [d \in DOMAIN dev |-> 0]
    /\ ctor = NoCtor

NextRouter ==
    \/ Produce(0, RouterEvents)
    \/ \E k \in Tos : Drain(k)
    \/ RouterConnect
    \/ RouterRecv
    \/ \E e \in Events(0) : BroadcastSend(e)
    \/ RouterStopped
    \/ RouterStopSignal
    \/ RouterStopCloseFrom
    \/ RouterStopCloseTo

SpecRouter == InitRouter /\ [][NextRouter]_vars

\* the Go scheduler runs every runnable goroutine, and the destinations are drained
FairRouter ==
    /\ SpecRouter
    /\ WF_vars(RouterConnect)
    /\ WF_vars(RouterRecv)
    /\ \A e \in Events(0) : WF_vars(BroadcastSend(e))
    /\ \A k \in Tos : WF_vars(Drain(k))

\* ----------------------------------------------------------------- Funnel

Froms == 1..NumFrom

\* the source device an event comes from; 0 for the zero Event, which no source
\* emitted.  In a Funnel, dlv[i] holds the events of source i that were placed
\* on To's input channel, and dlv[0] the values placed there that no source emitted.
Origin(e) == IF e = NilEvent THEN 0 ELSE e[1]

\* NewFunnel: To and every From opened, in this order, and an empty stop channel
NewFunnel == [d \in {0} \cup Froms |-> Device_Open(NewDevice)]

\* Funnel.Connect, one turn of its loop: go from.Run() and the goroutine that
\* forwards From[i]; go f.To.Run() comes before the first turn
FunnelConnect ==
    /\ Running
    /\ funnel.i \in Froms
    /\ funnel' = [i |-> funnel.i + 1,
                  task |-> [funnel.task EXCEPT ![funnel.i].pc = "select"]]
    /\ runs' = [runs EXCEPT ![funnel.i] = @ + 1,
                            ![0] = IF funnel.i = 1 THEN @ + 1 ELSE @]
    /\ UNCHANGED <<panic, dev, stop, stopPc, sent, dlv, pipe, router, bcast, portVars, run, ctor>>

\* goroutines that share one variable from: every one of them reads the last source
FunnelRecv_SharedFrom(i) ==
    /\ Running
    /\ funnel.task[i].pc = "select"
    /\ CanRecv(OutPort(NumFrom))
    /\ funnel' = [funnel EXCEPT !.task[i] = [pc |-> "send", e |-> RecvVal(OutPort(NumFrom))]]
    /\ dev' = [dev EXCEPT ![NumFrom].out.events = RecvChan(@)]
    /\ UNCHANGED <<panic, stop, stopPc, sent, dlv, pipe, router, bcast, portVars, auxVars>>

\* case e := <-from.OutPort().Events(): a closed channel yields the zero Event
FunnelRecv(i) ==
    /\ Running
    /\ funnel.task[i].pc = "select"
    /\ CanRecv(OutPort(i))
    /\ funnel' = [funnel EXCEPT !.task[i] = [pc |-> "send", e |-> RecvVal(OutPort(i))]]
    /\ dev' = [dev EXCEPT ![i].out.events = RecvChan(@)]
    /\ UNCHANGED <<panic, stop, stopPc, sent, dlv, pipe, router, bcast, portVars, auxVars>>

\* f.To.InPort().Events() <- e
FunnelSend(i) ==
    /\ Running
    /\ funnel.task[i].pc = "send"
    /\ CanSend(InPort(0))
    /\ panic' = SendPanic(InPort(0))
    /\ dev' = [dev EXCEPT ![0].in.events = SendChan(@, funnel.task[i].e)]
    /\ dlv' = IF InPort(0).st = "open"
              THEN [dlv EXCEPT ![Origin(funnel.task[i].e)] = Append(@, funnel.task[i].e)]
              ELSE dlv
    /\ funnel' = IF InPort(0).st = "open"
                 THEN [funnel EXCEPT !.task[i] = [pc |-> "select", e |-> NilEvent]]
                 ELSE funnel
    /\ UNCHANGED <<stop, stopPc, sent, pipe, router, bcast, portVars, auxVars>>

\* case <-f.stop:
FunnelStopped(i) ==
    /\ Running
    /\ funnel.task[i].pc = "select"
    /\ stop[1] > 0
    /\ stop' = [stop EXCEPT ![1] = 0]
    /\ funnel' = [funnel EXCEPT !.task[i].pc = "resend"]
    /\ UNCHANGED <<panic, dev, stopPc, sent, dlv, pipe, router, bcast, portVars, auxVars>>

\* f.stop <- true; return
FunnelResend(i) ==
    /\ Running
    /\ funnel.task[i].pc = "resend"
    /\ stop[1] = 0
    /\ stop' = [stop EXCEPT ![1] = 1]
    /\ funnel' = [funnel EXCEPT !.task[i].pc = "done"]
    /\ UNCHANGED <<panic, dev, stopPc, sent, dlv, pipe, router, bcast, portVars, auxVars>>

\* Funnel.Stop: f.stop <- true
FunnelStopSignal ==
    /\ Running
    /\ stopPc.pc = "idle"
    /\ stop[1] = 0
    /\ stop' = [stop EXCEPT ![1] = 1]
    /\ stopPc' = [pc |-> "closeTo", i |-> 0]
    /\ UNCHANGED <<panic, dev, sent, dlv, connVars, portVars, auxVars>>

\* Funnel.Stop: err = f.To.Close()
FunnelStopCloseTo ==
    /\ Running
    /\ stopPc.pc = "closeTo"
    /\ dev' = [dev EXCEPT ![0] = Device_Close(@).dev]
    /\ panic' = Device_Close(dev[0]).panic
    /\ stopPc' = [pc |-> "closeFrom", i |-> 1]
    /\ UNCHANGED <<stop, sent, dlv, connVars, portVars, auxVars>>

\* Funnel.Stop: for _, from := range f.From: err = from.Close()
FunnelStopCloseFrom ==
    /\ Running
    /\ stopPc.pc = "closeFrom"
    /\ dev' = [dev EXCEPT ![stopPc.i] = Device_Close(@).dev]
    /\ panic' = Device_Close(dev[stopPc.i]).panic
    /\ stopPc' = IF stopPc.i < NumFrom
                 THEN [pc |-> "closeFrom", i |-> stopPc.i + 1]
                 ELSE [pc |-> "done", i |-> 0]
    /\ UNCHANGED <<stop, sent, dlv, connVars, portVars, auxVars>>

InitFunnel ==
    /\ panic = "none"
    /\ dev = NewFunnel
    /\ stop = [c \in {1} |-> 0]
    /\ stopPc = Idle
    /\ sent = NoEvents({0} \cup Froms)
    /\ dlv = NoEvents({0} \cup Froms)
    /\ pipe = <<>>
    /\ router = [pc |-> "none"]
    /\ bcast = <<>>
    /\ funnel = [i |-> 1, task |-> [i \in Froms |-> [pc |-> "idle", e |-> NilEvent]]]
    /\ fake = NoPort
    /\ sys = NoPort
    /\ last = NoLast
    /\ run = NoRun
    /\ runs = [d \in DOMAIN dev |-> 0]
    /\ ctor = NoCtor

NextFunnel ==
    \/ \E i \in Froms : Produce(i, FunnelEvents)
    \/ Drain(0)
    \/ FunnelConnect
    \/ \E i \in Froms : FunnelRecv(i)
    \/ \E i \in Froms : FunnelSend(i)
    \/ \E i \in Froms : FunnelStopped(i)
    \/ \E i \in Froms : FunnelResend(i)
    \/ FunnelStopSignal
    \/ FunnelStopCloseTo
    \/ FunnelStopCloseFrom

SpecFunnel == InitFunnel /\ [][NextFunnel]_vars

\* the Go scheduler runs every runnable goroutine, a select whose stop case is
\* ready again and again takes it in the end, and the destination is drained
FairFunnel ==
    /\ SpecFunnel
    /\ WF_vars(FunnelConnect)
    /\ \A i \in Froms : /\ WF_vars(FunnelRecv(i))
                        /\ WF_vars(FunnelSend(i))
                        /\ SF_vars(FunnelStopped(i))
                        /\ WF_vars(FunnelResend(i))
    /\ WF_vars(Drain(0))
    /\ WF_vars(FunnelStopCloseTo)
    /\ WF_vars(FunnelStopCloseFrom)

\* the Funnel as long as nobody calls Stop
NextFunnelRun ==
    \/ \E i \in Froms : Produce(i, FunnelEvents)
    \/ Drain(0)
    \/ FunnelConnect
    \/ \E i \in Froms : FunnelRecv(i)
    \/ \E i \in Froms : FunnelSend(i)

SpecFunnelRun == InitFunnel /\ [][NextFunnelRun]_vars

\* the Go scheduler runs every runnable goroutine, and the destination is drained
FairFunnelRun ==
    /\ SpecFunnelRun
    /\ WF_vars(FunnelConnect)
    /\ \A i \in Froms : WF_vars(FunnelRecv(i)) /\ WF_vars(FunnelSend(i))
    /\ WF_vars(Drain(0))

\* --------------------------------------------------------- Funnel: claims

\* the event task i has received and not yet forwarded
FunnelPending(i) == IF funnel.task[i].pc = "send" THEN <<funnel.task[i].e>> ELSE <<>>

\* C4: Funnel merge completeness with per-source FIFO.  While no Stop is called,
\* for each source i the events of i placed on To.InPort()'s channel, then the
\* event task i holds, then the events still buffered in From[i].OutPort()'s
\* channel are exactly the events source i emitted, in order (no drop, no
\* duplicate, per-source FIFO); nothing else is placed on the destination; and
\* again and again everything the sources emitted has been placed there, when the
\* destination is drained.
FunnelMerge ==
    /\ [](\A i \in Froms :
            /\ sent[i] = dlv[i] \o FunnelPending(i) \o OutPort(i).buf
            /\ IsPrefix(dlv[i], sent[i]))
    /\ [](dlv[0] = <<>>)
    /\ []<>(\A i \in Froms : dlv[i] = sent[i])

\* every source has emitted all its events while another was emitting, and all
\* of them are on the destination
FunnelMergeWitness ==
    /\ \A i \in Froms : Len(dlv[i]) = FunnelEvents /\ dlv[i] = sent[i]
    /\ Len(InPort(0).buf) = BufferSize
    /\ InPort(0).buf[1][1] # 1

\* C7: Funnel shutdown daisy chain.  Once Funnel.Connect has spawned its N
\* forwarding tasks and Stop() has placed its token, every task consumes a token,
\* re-emits one and terminates: the Funnel never comes to rest with a task that
\* has not terminated.
FunnelSpawned == funnel.i > NumFrom

FunnelDaisyChain ==
    (FunnelSpawned /\ ~NoStop /\ ~ENABLED NextFunnel)
        => \A i \in Froms : funnel.task[i].pc = "done"

\* ------------------------------------------------------------------ Chain

ChainDevs == 0..(ChainLen - 1)

ChainPipes == 1..(ChainLen - 1)

\* the devices both a pipe's To and the next pipe's From
ChainMiddle == 1..(ChainLen - 2)

\* NewChain: NewPipe(Devices[i-1], Devices[i]) for i = 1..n-1 opens every device
\* as From or To of a pipe, a middle device twice
NewChain ==
    [d \in ChainDevs |-> IF d \in ChainMiddle
                         THEN Device_Open(Device_Open(NewDevice))
                         ELSE Device_Open(NewDevice)]

\* Chain.Connect, one turn of its loop: go pipe.Connect()
ChainConnect ==
    /\ Running
    /\ \E p \in ChainPipes :
          /\ pipe[p].pc = "new"
          /\ \A q \in ChainPipes : q < p => pipe[q].pc # "new"
          /\ pipe' = [pipe EXCEPT ![p].pc = "start"]
    /\ UNCHANGED <<panic, dev, stop, stopPc, sent, dlv, router, bcast, funnel, portVars, auxVars>>

\* the owner of middle device d passes an event from d's input port on to d's
\* output port
Through(d) ==
    /\ Running
    /\ InPort(d).buf # <<>>
    /\ OutPort(d).st = "open"
    /\ Len(OutPort(d).buf) < BufferSize
    /\ dev' = [dev EXCEPT ![d].in.events = RecvChan(@),
                          ![d].out.events = SendChan(@, Head(InPort(d).buf))]
    /\ sent' = [sent EXCEPT ![d] = Append(@, Head(InPort(d).buf))]
    /\ UNCHANGED <<panic, stop, stopPc, dlv, connVars, portVars, auxVars>>

\* Chain.Stop, pipe.Stop() of pipe stopPc.i: p.stop <- true
ChainStopSignal ==
    /\ Running
    /\ stopPc.pc \in {"idle", "signal"}
    /\ LET p == IF stopPc.pc = "idle" THEN 1 ELSE stopPc.i
       IN  /\ stop[p] = 0
           /\ stop' = [stop EXCEPT ![p] = 1]
           /\ stopPc' = [pc |-> "closeFrom", i |-> p]
    /\ UNCHANGED <<panic, dev, sent, dlv, connVars, portVars, auxVars>>

\* Chain.Stop, pipe.Stop() of pipe stopPc.i: err = p.From.Close()
ChainStopCloseFrom ==
    /\ Running
    /\ stopPc.pc = "closeFrom"
    /\ dev' = [dev EXCEPT ![PFrom(stopPc.i)] = Device_Close(@).dev]
    /\ panic' = Device_Close(dev[PFrom(stopPc.i)]).panic
    /\ stopPc' = [pc |-> "closeTo", i |-> stopPc.i]
    /\ UNCHANGED <<stop, sent, dlv, connVars, portVars, auxVars>>

\* Chain.Stop, pipe.Stop() of pipe stopPc.i: err = p.To.Close(), then the next pipe
ChainStopCloseTo ==
    /\ Running
    /\ stopPc.pc = "closeTo"
    /\ dev' = [dev EXCEPT ![PTo(stopPc.i)] = Device_Close(@).dev]
    /\ panic' = Device_Close(dev[PTo(stopPc.i)]).panic
    /\ stopPc' = IF stopPc.i < ChainLen - 1
                 THEN [pc |-> "signal", i |-> stopPc.i + 1]
                 ELSE [pc |-> "done", i |-> 0]
    /\ UNCHANGED <<stop, sent, dlv, connVars, portVars, auxVars>>

InitChain ==
    /\ panic = "none"
    /\ dev = NewChain
    /\ stop = [p \in ChainPipes |-> 0]
    /\ stopPc = Idle
    /\ sent = NoEvents(ChainDevs)
    /\ dlv = NoEvents(ChainDevs)
    /\ pipe = [p \in ChainPipes |-> [pc |-> "new", e |-> NilEvent]]
    /\ router = [pc |-> "none"]
    /\ bcast = <<>>
    /\ funnel = [i |-> 0, task |-> <<>>]
    /\ fake = NoPort
    /\ sys = NoPort
    /\ last = NoLast
    /\ run = NoRun
    /\ runs = [d \in ChainDevs |-> 0]
    /\ ctor = NoCtor

NextChain ==
    \/ Produce(0, ChainEvents)
    \/ Drain(ChainLen - 1)
    \/ \E d \in ChainMiddle : Through(d)
    \/ ChainConnect
    \/ \E p \in ChainPipes : PipeConnect(p)
    \/ \E p \in ChainPipes : PipeRecv(p)
    \/ \E p \in ChainPipes : PipeSend(p)
    \/ \E p \in ChainPipes : PipeStopped(p)
    \/ ChainStopSignal
    \/ ChainStopCloseFrom
    \/ ChainStopCloseTo

SpecChain == InitChain /\ [][NextChain]_vars

\* the Go scheduler runs every runnable goroutine, the middle devices pass their
\* events on and the tail is drained
FairChain ==
    /\ SpecChain
    /\ WF_vars(ChainConnect)
    /\ \A p \in ChainPipes : /\ WF_vars(PipeConnect(p))
                             /\ WF_vars(PipeRecv(p))
                             /\ WF_vars(PipeSend(p))
    /\ \A d \in ChainMiddle : WF_vars(Through(d))
    /\ WF_vars(Drain(ChainLen - 1))

\* ------------------------------------------------------------- SystemPort

\* what the transport answers: pmNoError, or one of its error numbers
PmErrors == {0, -10000, -9999}

Pm_GetErrorText(errNum) ==
    IF errNum = 0 THEN ""
    ELSE IF errNum = -10000 THEN "PortMidi: `Host error'"
    ELSE IF errNum = -9999 THEN "PortMidi: `Invalid device ID'"
    ELSE "PortMidi: `Illegal error number'"

\* nil when the error text is empty, else an error with that text
makePortMidiError(errNum) ==
    IF Pm_GetErrorText(errNum) = "" THEN Nil ELSE <<"error", Pm_GetErrorText(errNum)>>

\* a SystemPort as its constructor leaves it: closed, no stream, the event
\* channel made, an empty stop channel of capacity 1.  dir tells a SystemInPort
\* from a SystemOutPort; pc is where a Close in progress stands.
NewSystemPort(dir, id) ==
    [isOpen |-> FALSE, id |-> id, stream |-> Nil, events |-> MakeChan(1),
     stop |-> 0, dir |-> dir, pc |-> "idle"]

Op(op, port, wasOpen, errNum, transport, ret) ==
    [op |-> op, port |-> port, wasOpen |-> wasOpen, errNum |-> errNum,
     transport |-> transport, ret |-> ret]

NotConnected ==
    <<"error", "Underlying portmidi port is already opened, but stream is not connected to this SystemPort.">>

\* an Open that sets isOpen whatever the transport answered
SystemPort_Open_Always(s, errNum) ==
    IF s.isOpen /\ s.stream = Nil
    THEN [port |-> s, transport |-> FALSE, ret |-> NotConnected]
    ELSE IF s.id = -1 \/ s.isOpen
    THEN [port |-> s, transport |-> FALSE, ret |-> Nil]
    ELSE [port |-> [s EXCEPT !.isOpen = TRUE,
                             !.stream = IF errNum = 0 THEN "stream" ELSE Nil],
          transport |-> TRUE,
          ret |-> makePortMidiError(errNum)]

\* SystemOutPort.Open and SystemInPort.Open, which differ in the transport call
\* only (Pm_OpenInput, Pm_OpenOutput); errNum is what that call returns
SystemPort_Open(s, errNum) ==
    IF s.isOpen /\ s.stream = Nil
    THEN [port |-> s, transport |-> FALSE, ret |-> NotConnected]
    ELSE IF s.id = -1 \/ s.isOpen
    THEN [port |-> s, transport |-> FALSE, ret |-> Nil]
    ELSE [port |-> [s EXCEPT !.isOpen = IF errNum = 0 THEN TRUE ELSE @,
                             !.stream = IF errNum = 0 THEN "stream" ELSE Nil],
          transport |-> TRUE,
          ret |-> makePortMidiError(errNum)]

SystemOutPort_Open ==
    /\ Running
    /\ sys.dir = "out"
    /\ sys.pc = "idle"
    /\ \E errNum \in PmErrors :
          /\ sys' = SystemPort_Open(sys, errNum).port
          /\ last' = Op("Open", "sys", sys.isOpen, errNum,
                        SystemPort_Open(sys, errNum).transport,
                        SystemPort_Open(sys, errNum).ret)
    /\ UNCHANGED <<panic, dev, stop, stopPc, sent, dlv, connVars, auxVars, fake>>

SystemInPort_Open ==
    /\ Running
    /\ sys.dir = "in"
    /\ sys.pc = "idle"
    /\ \E errNum \in PmErrors :
          /\ sys' = SystemPort_Open(sys, errNum).port
          /\ last' = Op("Open", "sys", sys.isOpen, errNum,
                        SystemPort_Open(sys, errNum).transport,
                        SystemPort_Open(sys, errNum).ret)
    /\ UNCHANGED <<panic, dev, stop, stopPc, sent, dlv, connVars, auxVars, fake>>

\* SystemPort.Close: if s.isOpen { s.isOpen = false ... } else return nil
SystemPort_Close ==
    /\ Running
    /\ sys.pc = "idle"
    /\ IF sys.isOpen
       THEN /\ sys' = [sys EXCEPT !.isOpen = FALSE, !.pc = "closing"]
            /\ last' = Op("Close", "sys", TRUE, 0, FALSE, "pending")
       ELSE /\ sys' = sys
            /\ last' = Op("Close", "sys", FALSE, 0, FALSE, Nil)
    /\ UNCHANGED <<panic, dev, stop, stopPc, sent, dlv, connVars, auxVars, fake>>

\* SystemPort.Close: s.stop <- true, which waits for room in the stop channel
SystemPort_CloseSend ==
    /\ Running
    /\ sys.pc = "closing"
    /\ sys.stop < 1
    /\ sys' = [sys EXCEPT !.stop = 1, !.pc = "closeTransport"]
    /\ UNCHANGED <<panic, dev, stop, stopPc, sent, dlv, connVars, auxVars, fake, last>>

\* SystemPort.Close: errNum := C.Pm_Close(s.stream)
SystemPort_CloseTransport ==
    /\ Running
    /\ sys.pc = "closeTransport"
    /\ \E errNum \in PmErrors :
          last' = Op("Close", "sys", TRUE, errNum, TRUE, "pending")
    /\ sys' = [sys EXCEPT !.pc = "closeEvents"]
    /\ UNCHANGED <<panic, dev, stop, stopPc, sent, dlv, connVars, auxVars, fake>>

\* SystemPort.Close: close(s.events); return makePortMidiError(errNum)
SystemPort_CloseEvents ==
    /\ Running
    /\ sys.pc = "closeEvents"
    /\ panic' = ClosePanic(sys.events)
    /\ sys' = IF ClosePanic(sys.events) = "none"
              THEN [sys EXCEPT !.events = CloseChan(@), !.pc = "idle"]
              ELSE sys
    /\ last' = [last EXCEPT !.ret = IF ClosePanic(sys.events) = "none"
                                    THEN makePortMidiError(last.errNum) ELSE "panic"]
    /\ UNCHANGED <<dev, stop, stopPc, sent, dlv, connVars, auxVars, fake>>

\* ------------------------------------------------- FakePort: operations

Fake_Open ==
    /\ Running
    /\ fake.events.gen < MaxGen
    /\ fake' = FakePort_Open(fake, fake.events.gen + 1)
    /\ last' = Op("Open", "fake", fake.isOpen, 0, FALSE, Nil)
    /\ UNCHANGED <<panic, dev, stop, stopPc, sent, dlv, connVars, auxVars, sys>>

Fake_Close ==
    /\ Running
    /\ fake' = FakePort_Close(fake).port
    /\ panic' = FakePort_Close(fake).panic
    /\ last' = Op("Close", "fake", fake.isOpen, 0, FALSE,
                  IF FakePort_Close(fake).panic = "none" THEN Nil ELSE "panic")
    /\ UNCHANGED <<dev, stop, stopPc, sent, dlv, connVars, auxVars, sys>>

\* whoever feeds the port places an event on its channel
Fake_Publish ==
    /\ Running
    /\ fake.events.st = "open"
    /\ Len(fake.events.buf) < BufferSize
    /\ fake' = [fake EXCEPT !.events = SendChan(@, <<0, Len(@.buf) + 1>>)]
    /\ last' = Op("Publish", "fake", fake.isOpen, 0, FALSE, Nil)
    /\ UNCHANGED <<panic, dev, stop, stopPc, sent, dlv, connVars, auxVars, sys>>

System_Publish ==
    /\ Running
    /\ sys.events.st = "open"
    /\ Len(sys.events.buf) < BufferSize
    /\ sys' = [sys EXCEPT !.events = SendChan(@, <<0, Len(@.buf) + 1>>)]
    /\ last' = Op("Publish", "sys", sys.isOpen, 0, FALSE, Nil)
    /\ UNCHANGED <<panic, dev, stop, stopPc, sent, dlv, connVars, auxVars, fake>>

InitPort ==
    /\ panic = "none"
    /\ dev = <<>>
    /\ stop = <<>>
    /\ stopPc = Idle
    /\ sent = <<>>
    /\ dlv = <<>>
    /\ pipe = <<>>
    /\ router = [pc |-> "none"]
    /\ bcast = <<>>
    /\ funnel = [i |-> 0, task |-> <<>>]
    /\ fake = NewFakePort
    /\ \E dir \in {"in", "out"} : \E id \in {-1, 0} : sys = NewSystemPort(dir, id)
    /\ last = Op("none", "none", FALSE, 0, FALSE, Nil)
    /\ run = NoRun
    /\ runs = <<>>
    /\ ctor = NoCtor

NextPort ==
    \/ Fake_Open
    \/ Fake_Close
    \/ Fake_Publish
    \/ SystemOutPort_Open
    \/ SystemInPort_Open
    \/ SystemPort_Close
    \/ SystemPort_CloseSend
    \/ SystemPort_CloseTransport
    \/ SystemPort_CloseEvents
    \/ System_Publish

SpecPort == InitPort /\ [][NextPort]_vars

\* ------------------------------------------------------------ Port: claims

\* C6: shutdown idempotence.  Close on a port that is not open (closed before,
\* or never opened) returns nil, does not panic, performs no transport
\* operation and leaves the port as it was, for a SystemPort and for a FakePort.
CloseIdempotent ==
    [][(last'.op = "Close" /\ ~last'.wasOpen)
          => /\ panic' = "none"
             /\ last'.ret = Nil
             /\ ~last'.transport
             /\ fake' = fake
             /\ sys' = sys]_vars

\* C9: Open is idempotent.  Open on a port that is open returns nil, performs
\* no transport operation and leaves the port as it was: isOpen, the event
\* channel (the same channel object) and the events buffered in it.
OpenIdempotent ==
    [][(last'.op = "Open" /\ last'.wasOpen)
          => /\ last'.ret = Nil
             /\ ~last'.transport
             /\ fake' = fake
             /\ sys' = sys]_vars

\* C10: an Open of a SystemInPort or SystemOutPort that the transport rejects
\* returns a non-nil error and leaves isOpen false; isOpen becomes true only in
\* an Open whose transport call succeeded.
OpenFailure ==
    /\ [][(last'.op = "Open" /\ last'.port = "sys" /\ last'.transport /\ last'.errNum # 0)
            => last'.ret # Nil /\ ~sys'.isOpen]_vars
    /\ [][(~sys.isOpen /\ sys'.isOpen)
            => /\ last'.op = "Open" /\ last'.port = "sys"
               /\ last'.transport /\ last'.errNum = 0 /\ last'.ret = Nil]_vars

OpenFailureWitness ==
    /\ last.op = "Open" /\ last.port = "sys" /\ last.transport
    /\ last.errNum # 0
    /\ last.ret # Nil
    /\ ~sys.isOpen

\* ------------------------------------------------------------ Pipe: claims

\* the event Pipe.Connect has received and not yet forwarded
Pending(p) == IF pipe[p].pc = "send" THEN <<pipe[p].e>> ELSE <<>>

\* C1: Pipe FIFO.  While no Stop is called, the events placed on To.InPort()'s
\* channel, then the event the loop holds, then the events still buffered in
\* From.OutPort()'s channel are exactly the events e1..ek placed on the source, in
\* order (so the destination sequence is a prefix of e1..ek: no drop, duplicate,
\* reordering or change), and every ei is eventually placed on the destination
\* when the destination is drained.
PipeFIFO ==
    /\ [](NoStop => /\ sent[0] = dlv[1] \o Pending(1) \o OutPort(0).buf
                    /\ IsPrefix(dlv[1], sent[0]))
    /\ \A n \in 1..PipeEvents :
           (Len(sent[0]) >= n) ~> (~NoStop \/ (Len(dlv[1]) >= n /\ dlv[1][n] = <<0, n>>))

PipeFIFOWitness ==
    /\ NoStop
    /\ Len(dlv[1]) = PipeEvents
    /\ dlv[1] = sent[0]
    /\ pipe[1].pc = "select"

\* C2: no forwarding goroutine of a connector ever sends on a destination
\* event channel that Stop() has closed.
NoSendOnClosedChannel == panic # "send on closed channel"

\* C5: backpressure.  The destination channel never holds more than BufferSize
\* events; a Pipe forwarder that holds an event while the destination is full can
\* neither send nor receive; as long as it holds the event it keeps that very
\* event and takes nothing from the source; whatever is placed on the destination
\* next is the event it holds; and it does place it once the destination is
\* drained (unless Stop is called).
DstFull(p) == InPort(PTo(p)).st = "open" /\ Len(InPort(PTo(p)).buf) = BufferSize

Backpressure ==
    /\ [](Len(InPort(1).buf) <= BufferSize)
    /\ [](pipe[1].pc = "send" /\ DstFull(1)
            => ~ENABLED PipeSend(1) /\ ~ENABLED PipeRecv(1))
    /\ [][pipe[1].pc = "send" /\ pipe'[1].pc = "send"
            => /\ pipe'[1].e = pipe[1].e
               /\ dlv' = dlv
               /\ IsPrefix(OutPort(0).buf, OutPort(0)'.buf)]_vars
    /\ [][dlv'[1] # dlv[1]
            => pipe[1].pc = "send" /\ dlv'[1] = Append(dlv[1], pipe[1].e)]_vars
    /\ \A n \in 1..PipeEvents :
           (pipe[1].pc = "send" /\ pipe[1].e = <<0, n>> /\ DstFull(1))
               ~> (~NoStop \/ (Len(dlv[1]) >= n /\ dlv[1][n] = <<0, n>>))

BackpressureWitness ==
    /\ NoStop
    /\ pipe[1].pc = "send"
    /\ pipe[1].e = <<0, PipeEvents>>
    /\ DstFull(1)

\* ---------------------------------------------------------- Router: claims

\* the Router has received e from the source channel
Received(e) == bcast[e] > 0

\* C3: Router broadcast completeness.  An event is never placed more than once
\* on a destination's channel; the broadcast of an event that has finished has
\* placed it exactly once on each of the N destinations; and every event the
\* Router receives from the source is eventually placed on each destination's
\* channel when the destinations are drained (unless Stop is called): again and
\* again every event received so far is on every destination.
BroadcastComplete ==
    /\ [](\A e \in Events(0) : \A k \in Tos :
            /\ Count(dlv[k], e) <= 1
            /\ bcast[e] > k => Count(dlv[k], e) = 1)
    /\ []<>(~NoStop \/ \A e \in Events(0) : \A k \in Tos :
                            Received(e) => Count(dlv[k], e) = 1)

BroadcastCompleteWitness ==
    /\ NoStop
    /\ \A e \in Events(0) : bcast[e] = NumTo + 1
    /\ \A k \in Tos : Len(dlv[k]) = RouterEvents

\* s holds events in the order in which the source emitted them, which is the
\* order in which the Router's single loop received them
InSourceOrder(s) == \A i, j \in 1..Len(s) : i < j => s[i][2] < s[j][2]

\* C8 as claimed: on every destination To[k] the events appear in the order in
\* which the Router received them.
RouterBranchFIFO == \A k \in Tos : InSourceOrder(dlv[k])

\* C8 as amended: every event on To[k]'s channel is one the Router received, it
\* is there at most once, and it was placed on To[1..k-1] before; the order
\* between distinct events is not that of reception.
RouterBranchDelivery ==
    \A k \in Tos : \A i \in 1..Len(dlv[k]) :
        /\ dlv[k][i] \in Events(0)
        /\ Received(dlv[k][i])
        /\ bcast[dlv[k][i]] > k
        /\ Count(dlv[k], dlv[k][i]) = 1
        /\ k > 1 => Count(dlv[k - 1], dlv[k][i]) = 1

\* two events delivered to the last destination against the order of reception
RouterBranchDeliveryWitness ==
    /\ NoStop
    /\ Len(dlv[NumTo]) >= 2
    /\ dlv[NumTo][1][2] > dlv[NumTo][2][2]

\* C14: Pipe stop is immediate.  Once Stop() has placed the stop token, the
\* Pipe.Connect loop places no further event on the destination channel (an
\* event it has received and not yet forwarded is dropped), and Connect returns.
PipeStopImmediate ==
    /\ [][~NoStop => dlv' = dlv]_vars
    /\ [](~NoStop /\ ~ENABLED NextPipe => pipe[1].pc = "done")

\* C19: a Funnel forwards only real events.  A forwarding task never holds the
\* zero Event of a closed source channel to send it on, and every value placed
\* on To.InPort()'s channel is an event its source emitted.
FunnelOnlyRealEvents ==
    /\ \A i \in Froms : funnel.task[i].pc = "send" => funnel.task[i].e # NilEvent
    /\ dlv[0] = <<>>
    /\ \A i \in Froms : IsPrefix(dlv[i], sent[i])

\* ----------------------------------------------------------- Chain: claims

\* C13: Chain end-to-end delivery.  In a Chain of D0, D1, D2 every event pushed
\* on D0's output channel is placed by each Pipe on its destination's input
\* channel at most once, in the order pushed, and again and again everything
\* pushed so far has been placed on the tail's input channel by the last Pipe,
\* each Pipe having forwarded it exactly once (unless Stop is called).
ChainDelivery ==
    /\ [](\A p \in ChainPipes : /\ IsPrefix(dlv[PTo(p)], sent[0])
                                /\ NoStop => sent[PFrom(p)] = dlv[PTo(p)] \o Pending(p)
                                                 \o OutPort(PFrom(p)).buf)
    /\ []<>(~NoStop \/ \A p \in ChainPipes : dlv[PTo(p)] = sent[0])

ChainDeliveryWitness ==
    /\ NoStop
    /\ Len(sent[0]) = ChainEvents
    /\ \A p \in ChainPipes : dlv[PTo(p)] = sent[0]
    /\ InPort(ChainLen - 1).buf # <<>>

\* C15: Run at most once per open session.  No device of a connector has more
\* than one Run loop started before it is closed.
RunOnce == NoStop => \A d \in DOMAIN runs : runs[d] <= 1

\* ---------------------------------------------------------- constructors

\* a device over two system ports; Open cascades to the input port, then the
\* output port, stopping at the first failure without undoing the first
SystemDevice_Open(d, errIn, errOut) ==
    LET ri == SystemPort_Open(d.in, errIn)
        ro == SystemPort_Open(d.out, errOut)
    IN  IF ri.ret # Nil
        THEN [dev |-> [d EXCEPT !.in = ri.port], ret |-> ri.ret]
        ELSE [dev |-> [in |-> ri.port, out |-> ro.port], ret |-> ro.ret]

\* the system ports a device handed to a constructor can have: never opened, or
\* opened by an earlier use
SystemPorts(dir) ==
    {NewSystemPort(dir, 0), SystemPort_Open(NewSystemPort(dir, 0), 0).port}

SystemDevices == [in : SystemPorts("in"), out : SystemPorts("out")]

IsOpenDevice(d) == d.in.isOpen /\ d.out.isOpen

\* return Pipe{}, err  and  return Router{}, err
CtorFail(err) ==
    [ctor EXCEPT !.pc = "done", !.res = "zero", !.err = err,
                 !.opens = Append(@, err)]

\* NewPipe: err = pipe.From.Open()
NewPipe_From ==
    /\ Running
    /\ ctor.kind = "pipe"
    /\ ctor.pc = "from"
    /\ \E errIn \in PmErrors, errOut \in PmErrors :
          LET r == SystemDevice_Open(dev[0], errIn, errOut)
          IN  /\ dev' = [dev EXCEPT ![0] = r.dev]
              /\ ctor' = IF r.ret # Nil THEN CtorFail(r.ret)
                         ELSE [ctor EXCEPT !.pc = "to", !.i = 1,
                                           !.opens = Append(@, r.ret)]
    /\ UNCHANGED <<panic, stop, stopPc, sent, dlv, connVars, portVars, run, runs>>

\* NewPipe: err = pipe.To.Open(), then return
NewPipe_To ==
    /\ Running
    /\ ctor.kind = "pipe"
    /\ ctor.pc = "to"
    /\ \E errIn \in PmErrors, errOut \in PmErrors :
          LET r == SystemDevice_Open(dev[1], errIn, errOut)
          IN  /\ dev' = [dev EXCEPT ![1] = r.dev]
              /\ ctor' = IF r.ret # Nil THEN CtorFail(r.ret)
                         ELSE [ctor EXCEPT !.pc = "done", !.res = "pipe",
                                           !.opens = Append(@, r.ret)]
    /\ UNCHANGED <<panic, stop, stopPc, sent, dlv, connVars, portVars, run, runs>>

\* NewRouter: err = r.From.Open(); with no destination the loop is skipped
NewRouter_From ==
    /\ Running
    /\ ctor.kind = "router"
    /\ ctor.pc = "from"
    /\ \E errIn \in PmErrors, errOut \in PmErrors :
          LET r == SystemDevice_Open(dev[0], errIn, errOut)
          IN  /\ dev' = [dev EXCEPT ![0] = r.dev]
              /\ ctor' = IF r.ret # Nil THEN CtorFail(r.ret)
                         ELSE [ctor EXCEPT !.pc = "to", !.i = 1,
                                           !.opens = Append(@, r.ret)]
    /\ UNCHANGED <<panic, stop, stopPc, sent, dlv, connVars, portVars, run, runs>>

\* a loop turn that goes on to the next destination although to.Open() failed
NewRouter_To_Continue ==
    /\ Running
    /\ ctor.kind = "router"
    /\ ctor.pc = "to"
    /\ \E errIn \in PmErrors, errOut \in PmErrors :
          LET r == SystemDevice_Open(dev[ctor.i], errIn, errOut)
          IN  /\ dev' = [dev EXCEPT ![ctor.i] = r.dev]
              /\ ctor' = IF ctor.i < NumTo
                         THEN [ctor EXCEPT !.i = @ + 1, !.opens = Append(@, r.ret)]
                         ELSE IF r.ret # Nil THEN CtorFail(r.ret)
                         ELSE [ctor EXCEPT !.pc = "done", !.res = "router",
                                           !.opens = Append(@, r.ret)]
    /\ UNCHANGED <<panic, stop, stopPc, sent, dlv, connVars, portVars, run, runs>>

\* NewRouter, one turn of the loop: err = to.Open(); return after the last
NewRouter_To ==
    /\ Running
    /\ ctor.kind = "router"
    /\ ctor.pc = "to"
    /\ \E errIn \in PmErrors, errOut \in PmErrors :
          LET r == SystemDevice_Open(dev[ctor.i], errIn, errOut)
          IN  /\ dev' = [dev EXCEPT ![ctor.i] = r.dev]
              /\ ctor' = IF r.ret # Nil THEN CtorFail(r.ret)
                         ELSE IF ctor.i < NumTo
                         THEN [ctor EXCEPT !.i = @ + 1, !.opens = Append(@, r.ret)]
                         ELSE [ctor EXCEPT !.pc = "done", !.res = "router",
                                           !.opens = Append(@, r.ret)]
    /\ UNCHANGED <<panic, stop, stopPc, sent, dlv, connVars, portVars, run, runs>>

\* the call of NewPipe(from, to) or NewRouter(from, to...) on devices never
\* opened or left open by an earlier use; ctor.init remembers them
InitNew ==
    /\ panic = "none"
    /\ \E kind \in {"pipe", "router"} :
          /\ dev \in [0..(IF kind = "pipe" THEN 1 ELSE NumTo) -> SystemDevices]
          /\ ctor = [pc |-> "from", kind |-> kind, i |-> 0, res |-> "none",
                     err |-> Nil, opens |-> <<>>, init |-> dev]
    /\ stop = <<>>
    /\ stopPc = Idle
    /\ sent = <<>>
    /\ dlv = <<>>
    /\ pipe = <<>>
    /\ router = [pc |-> "none"]
    /\ bcast = <<>>
    /\ funnel = [i |-> 0, task |-> <<>>]
    /\ fake = NoPort
    /\ sys = NoPort
    /\ last = NoLast
    /\ run = NoRun
    /\ runs = <<>>

NextNew ==
    \/ NewPipe_From
    \/ NewPipe_To
    \/ NewRouter_From
    \/ NewRouter_To

SpecNew == InitNew /\ [][NextNew]_vars

\* C11: constructor abort on first failure.  NewRouter and NewPipe call no Open
\* after one that failed; they return the error of that Open together with the
\* zero-value connector; every device opened before the failure is open, and
\* every device after the failing one is as it was handed in.
NewAbortsOnFirstFailure ==
    /\ \A j \in 1..(Len(ctor.opens) - 1) : ctor.opens[j] = Nil
    /\ ctor.pc = "done" =>
          /\ ctor.err = ctor.opens[Len(ctor.opens)]
          /\ ctor.res = (IF ctor.err # Nil THEN "zero" ELSE ctor.kind)
          /\ ctor.err = Nil => Len(ctor.opens) = Cardinality(DOMAIN dev)
    /\ \A j \in DOMAIN dev :
          /\ j + 1 > Len(ctor.opens) => dev[j] = ctor.init[j]
          /\ j + 1 < Len(ctor.opens) => IsOpenDevice(dev[j])

\* a destination's Open failed after the source was opened by the constructor,
\* with a never opened device still to come
NewAbortsOnFirstFailureWitness ==
    /\ ctor.pc = "done"
    /\ ctor.err # Nil
    /\ ctor.res = "zero"
    /\ Len(ctor.opens) = 2
    /\ ~IsOpenDevice(ctor.init[0])
    /\ IsOpenDevice(dev[0])
    /\ Cardinality(DOMAIN dev) > 2
    /\ ~dev[2].in.isOpen
    /\ ~dev[2].out.isOpen

\* ------------------------------------------------- SystemOutPort.Run

\* command nibbles of the status byte
NOTE_OFF == 128

NOTE_ON == 144

CONTROL_CHANGE == 176

PITCH_BEND == 224

\* the controller-number -> name table
ControlChangeNames == [n \in {7} |-> "Volume"]

\* a frame as the transport packs it: status in the low byte, then data1, data2
PmMessage(status, data1, data2) == status + data1 * 256 + data2 * 65536

\* the frames the transport delivers
Frames ==
    {PmMessage(cmd + 1, d1, d2) :
        cmd \in {NOTE_OFF, NOTE_ON, CONTROL_CHANGE, PITCH_BEND}, d1 \in {7, 60}, d2 \in {0, 100}}

\* Message{}
ZeroMessage == [Channel |-> 0, Command |-> 0, Data1 |-> 0, Data2 |-> 0]

\* readEvent, the decoding of buffer.message when eventsRead > 0
Decode(msg) ==
    LET status == msg % 256
    IN  [Channel |-> status % 16,
         Command |-> status - (status % 16),
         Data1 |-> (msg \div 256) % 256,
         Data2 |-> (msg \div 65536) % 256]

\* readEvent: the Message of the frame read, the zero Message when Pm_Read read
\* none; the error returned is nil either way
readEvent(eventsRead, msg) == IF eventsRead > 0 THEN Decode(msg) ELSE ZeroMessage

\* the switch on m.Command of SystemOutPort.Run: the Event it publishes
Classify(m) ==
    IF m.Command = NOTE_ON THEN <<"NoteOn", m.Channel, m.Data1, m.Data2>>
    ELSE IF m.Command = NOTE_OFF THEN <<"NoteOff", m.Channel, m.Data1, 0>>
    ELSE IF m.Command = CONTROL_CHANGE
    THEN <<"ControlChange", m.Channel, m.Data1, m.Data2,
           IF m.Data1 \in DOMAIN ControlChangeNames
           THEN ControlChangeNames[m.Data1] ELSE "Unknown">>
    ELSE <<"Message", m.Channel, m.Command, m.Data1, m.Data2>>

\* go s.Run(): the receiver is a value, so the loop works on a copy of isOpen and
\* stream taken now, and on the port's own channels
SystemOutPort_Run ==
    /\ Running
    /\ sys.dir = "out"
    /\ run.pc \in {"none", "returned"}
    /\ run' = [pc |-> "select", isOpen |-> sys.isOpen, stream |-> sys.stream,
               got |-> FALSE, frame |-> 0, m |-> ZeroMessage]
    /\ UNCHANGED <<panic, dev, stop, stopPc, sent, dlv, connVars, portVars, runs, ctor>>

\* select { case <-s.stop: return; default: ... }
SystemOutPort_RunSelect ==
    /\ Running
    /\ run.pc = "select"
    /\ IF sys.stop > 0
       THEN /\ sys' = [sys EXCEPT !.stop = @ - 1]
            /\ run' = [run EXCEPT !.pc = "returned"]
       ELSE /\ sys' = sys
            /\ run' = [run EXCEPT !.pc = "poll"]
    /\ UNCHANGED <<panic, dev, stop, stopPc, sent, dlv, connVars, fake, last, runs, ctor>>

\* dataAvailable, err := s.poll(); panic(err); sleep and continue without data.
\* What Pm_Poll answers is the transport's choice, also on a stream that
\* Pm_Close has released.
SystemOutPort_poll ==
    /\ Running
    /\ run.pc = "poll"
    /\ IF run.stream = Nil \/ ~run.isOpen
       THEN /\ panic' = "poll error"
            /\ UNCHANGED <<run, dlv>>
       ELSE \E answer \in {"data", "none", "error"} :
               /\ answer = "data" => dlv.polls < RunFrames
               /\ panic' = IF answer = "error" THEN "poll error" ELSE panic
               /\ run' = [run EXCEPT !.pc = IF answer = "data" THEN "read"
                                            ELSE IF answer = "none" THEN "select"
                                            ELSE @]
               /\ dlv' = [dlv EXCEPT !.polls = IF answer = "data" THEN @ + 1 ELSE @]
    /\ UNCHANGED <<dev, stop, stopPc, sent, connVars, portVars, runs, ctor>>

\* m, err := s.readEvent(); if err != nil { continue }: err is always nil
SystemOutPort_readEvent ==
    /\ Running
    /\ run.pc = "read"
    /\ \E eventsRead \in {-1, 0, 1}, msg \in Frames :
          /\ eventsRead <= 0 => msg = CHOOSE f \in Frames : TRUE
          /\ run' = [run EXCEPT !.pc = "publish",
                                !.got = eventsRead > 0,
                                !.frame = IF eventsRead > 0 THEN msg ELSE 0,
                                !.m = readEvent(eventsRead, msg)]
          /\ dlv' = [dlv EXCEPT !.reads = IF eventsRead > 0 THEN @ + 1 ELSE @]
    /\ UNCHANGED <<panic, dev, stop, stopPc, sent, connVars, portVars, runs, ctor>>

\* switch m.Command { ... s.events <- ... }: waits while the channel is full
SystemOutPort_RunPublish ==
    /\ Running
    /\ run.pc = "publish"
    /\ CanSend(sys.events)
    /\ panic' = SendPanic(sys.events)
    /\ sys' = [sys EXCEPT !.events = SendChan(@, Classify(run.m))]
    /\ run' = IF SendPanic(sys.events) = "none" THEN [run EXCEPT !.pc = "select"] ELSE run
    /\ dlv' = IF SendPanic(sys.events) = "none"
              THEN [dlv EXCEPT !.pubs = @ + 1, !.got = run.got, !.frame = run.frame,
                               !.e = Classify(run.m)]
              ELSE dlv
    /\ UNCHANGED <<dev, stop, stopPc, sent, connVars, fake, last, runs, ctor>>

\* whoever reads the port (a connector) takes an event from its channel
System_Drain ==
    /\ Running
    /\ sys.events.buf # <<>>
    /\ sys' = [sys EXCEPT !.events = RecvChan(@)]
    /\ UNCHANGED <<panic, dev, stop, stopPc, sent, dlv, connVars, fake, last, auxVars>>

\* a SystemOutPort as constructed, no Run loop started; dlv counts the polls that
\* found data, the frames read and the events published, and keeps the last
\* event published with the read it came from
InitRun ==
    /\ panic = "none"
    /\ dev = <<>>
    /\ stop = <<>>
    /\ stopPc = Idle
    /\ sent = <<>>
    /\ dlv = [polls |-> 0, reads |-> 0, pubs |-> 0, got |-> FALSE, frame |-> 0,
              e |-> NilEvent]
    /\ pipe = <<>>
    /\ router = [pc |-> "none"]
    /\ bcast = <<>>
    /\ funnel = [i |-> 0, task |-> <<>>]
    /\ fake = NoPort
    /\ sys = NewSystemPort("out", 0)
    /\ last = Op("none", "none", FALSE, 0, FALSE, Nil)
    /\ run = NoRun
    /\ runs = <<>>
    /\ ctor = NoCtor

NextRun ==
    \/ SystemOutPort_Open
    \/ SystemPort_Close
    \/ SystemPort_CloseSend
    \/ SystemPort_CloseTransport
    \/ SystemPort_CloseEvents
    \/ SystemOutPort_Run
    \/ SystemOutPort_RunSelect
    \/ SystemOutPort_poll
    \/ SystemOutPort_readEvent
    \/ SystemOutPort_RunPublish
    \/ System_Drain

SpecRun == InitRun /\ [][NextRun]_vars

\* ------------------------------------------- SystemOutPort.Run: claims

\* the Event a frame is to be published as: NoteOn for a note-on with a velocity,
\* NoteOff with velocity 0 for a note-off and for a note-on with velocity 0,
\* ControlChange with the table name or "Unknown", else the raw message
EventOf(m) ==
    IF m.Command = NOTE_ON /\ m.Data2 # 0
    THEN <<"NoteOn", m.Channel, m.Data1, m.Data2>>
    ELSE IF m.Command = NOTE_OFF \/ m.Command = NOTE_ON
    THEN <<"NoteOff", m.Channel, m.Data1, 0>>
    ELSE IF m.Command = CONTROL_CHANGE
    THEN <<"ControlChange", m.Channel, m.Data1, m.Data2,
           IF m.Data1 \in DOMAIN ControlChangeNames
           THEN ControlChangeNames[m.Data1] ELSE "Unknown">>
    ELSE <<"Message", m.Channel, m.Command, m.Data1, m.Data2>>

\* C12: classification.  The Event the Run loop published last for a frame it
\* read is the one the classification table gives for that frame; a note-on
\* frame with velocity 0 is published as NoteOff{channel, data1, 0}.
FrameClassification ==
    (dlv.pubs > 0 /\ dlv.got) => dlv.e = EventOf(Decode(dlv.frame))

\* C16: Close ordering and completion.  The event channel is closed only by a
\* Close that has placed its stop token and released the transport; a Close on
\* an open system port does not panic, and once it has returned isOpen is false,
\* the event channel is closed and the value returned is the error of the
\* transport's close (nil when there was none).
CloseOrderingCompletion ==
    /\ [][(sys.events.st = "open" /\ sys'.events.st = "closed")
              => sys.pc = "closeEvents" /\ last.transport]_vars
    /\ [](panic # "close of closed channel")
    /\ []((last.op = "Close" /\ last.wasOpen /\ last.ret # "pending")
              => /\ ~sys.isOpen
                 /\ sys.events.st = "closed"
                 /\ sys.pc = "idle"
                 /\ last.ret = makePortMidiError(last.errNum))

\* C17: Close never blocks on the stop signal.  Whenever a Close on an open
\* system port stands before s.stop <- true, the stop channel has room.
CloseNeverBlocks == (Running /\ sys.pc = "closing") => ENABLED SystemPort_CloseSend

\* C18: no publish on a closed port channel.  The Run loop never executes its
\* send on the event channel when Close has closed that channel.
RunNoPublishAfterClose ==
    /\ [](~(run.pc = "publish" /\ panic = "send on closed channel"))
    /\ [][(run.pc = "publish" /\ run'.pc = "select") => sys.events.st = "open"]_vars

\* C20: decode skip.  An iteration of the Run loop whose read yielded no frame
\* does not reach the publish; the loop publishes no more events than frames it
\* read, each published event coming from a frame read; a polling error ends
\* the loop.
DecodeSkip ==
    /\ run.pc = "publish" => run.got
    /\ dlv.pubs <= dlv.reads
    /\ dlv.pubs > 0 => dlv.got
    /\ panic = "poll error" => ~ENABLED NextRun

====
